---------------------------- MODULE Spec2Model ----------------------------
(***************************************************************************)
(* Model of the API client (shared/api): the ApiClient class with its      *)
(* bearer-token field, the construction of an outgoing request in          *)
(* makeRequest, the two suspension points of a request (await fetch,       *)
(* await response.json()) and the classification of failures into          *)
(* ApiError values.                                                        *)
(*                                                                         *)
(* JavaScript runs one task at a time: everything makeRequest does between *)
(* two awaits is one atomic step.  A call therefore takes three steps: the *)
(* synchronous prefix (build the request, call fetch), the continuation    *)
(* after fetch settles, and the continuation after response.json()         *)
(* settles.  Calls to setAuthToken / clearAuthToken and further request    *)
(* calls may be interleaved between those steps.                           *)
(***************************************************************************)
EXTENDS Integers, Sequences, FiniteSets, TLC

VARIABLES
    authToken,       \* ApiClient.authToken: Undefined or a string value
    defaultHeaders,  \* the module-level defaultHeaders object
    calls            \* one record per call slot: the call's position and data

vars == <<authToken, defaultHeaders, calls>>

---------------------------------------------------------------------------
(* Bounds of the model *)

\* number of call slots: at most this many calls are pending at once
MaxCalls == 2

\* number of call slots of the specifications that explore the inputs of one
\* call in full (RequestSpec, ResponseSpec)
MaxSingleCalls == 1

---------------------------------------------------------------------------
(* JavaScript values.  Every value is a record of one shape: its type tag  *)
(* t, a string payload s, a numeric payload n and a list f of <<key,       *)
(* value>> fields (own enumerable properties, in insertion order).         *)

V(t, s, n, f) == [t |-> t, s |-> s, n |-> n, f |-> f]

Undefined == V("undefined", "", 0, <<>>)
Null == V("null", "", 0, <<>>)
Str(s) == V("string", s, 0, <<>>)
Num(n) == V("number", "", n, <<>>)
Bool(b) == V("boolean", IF b THEN "true" ELSE "false", 0, <<>>)
Obj(f) == V("object", "", 0, f)
\* an object that (transitively) holds a reference to itself
Cyclic == V("cyclic", "", 0, <<>>)
\* a FormData instance with its entries
FormDataOf(f) == V("FormData", "", 0, f)
\* a File handed to uploadFile
FileOf(name) == V("File", name, 0, <<>>)
\* Error objects: name and message
ErrorOf(name, message) == V(name, message, 0, <<>>)

\* ToBoolean: what `if (x)`, `x && y` and `x || y` test
Truthy(v) ==
    CASE v.t = "undefined" -> FALSE
      [] v.t = "null" -> FALSE
      [] v.t = "boolean" -> v.s = "true"
      [] v.t = "number" -> v.n # 0
      [] v.t = "string" -> v.s # ""
      [] OTHER -> TRUE

HasField(v, key) == \E i \in 1..Len(v.f) : v.f[i][1] = key

\* v[key] for a value that is not null or undefined: the property, or undefined
Field(v, key) ==
    IF HasField(v, key)
    THEN LET i == CHOOSE j \in 1..Len(v.f) : v.f[j][1] = key IN v.f[i][2]
    ELSE Undefined

\* reading a property of null or undefined throws a TypeError
PropertyReadThrows(v) == v.t \in {"undefined", "null"}

PropertyReadError(v, key) ==
    ErrorOf("TypeError",
            "Cannot read properties of " \o v.t \o " (reading '" \o key \o "')")

\* JSON.stringify throws a TypeError on a cyclic structure
RECURSIVE StringifyThrows(_)
StringifyThrows(v) ==
    \/ v.t = "cyclic"
    \/ /\ v.t = "object"
       /\ \E i \in 1..Len(v.f) : StringifyThrows(v.f[i][2])

StringifyError == ErrorOf("TypeError", "Converting circular structure to JSON")

\* JSON.stringify of a value it does not throw on.  Properties whose value
\* is undefined are left out of an object.
RECURSIVE JSONstringify(_)
RECURSIVE StringifyFields(_, _)
StringifyFields(f, first) ==
    IF f = <<>> THEN ""
    ELSE IF Head(f)[2].t = "undefined" THEN StringifyFields(Tail(f), first)
    ELSE (IF first THEN "" ELSE ",")
         \o "\"" \o Head(f)[1] \o "\":" \o JSONstringify(Head(f)[2])
         \o StringifyFields(Tail(f), FALSE)

JSONstringify(v) ==
    CASE v.t = "null" -> "null"
      [] v.t = "boolean" -> v.s
      [] v.t = "number" -> ToString(v.n)
      [] v.t = "string" -> "\"" \o v.s \o "\""
      [] v.t = "object" -> "{" \o StringifyFields(v.f, TRUE) \o "}"
      [] OTHER -> "{}"

---------------------------------------------------------------------------
(* The ApiError class *)

ApiError(message, status, data) ==
    V("ApiError", message, status, <<<<"data", data>>>>)

IsApiError(v) == v.t = "ApiError"

---------------------------------------------------------------------------
(* Header objects: a function from the names of the headers present to     *)
(* their values.                                                           *)

NoHeaders == [k \in {} |-> ""]

\* { ...a, ...b }: a fresh object, b's entries win
Spread(a, b) ==
    [k \in (DOMAIN a) \cup (DOMAIN b) |-> IF k \in DOMAIN b THEN b[k] ELSE a[k]]

\* delete h[name]
DeleteHeader(h, name) == [k \in (DOMAIN h) \ {name} |-> h[k]]

InitialDefaultHeaders ==
    [k \in {"Content-Type", "X-Requested-With"} |->
        IF k = "Content-Type" THEN "application/json" ELSE "XMLHttpRequest"]

API_BASE_URL == "http://localhost:8080/api"

---------------------------------------------------------------------------
(* addQueryParams.  A parameter name or value is a sequence of characters; *)
(* URLSearchParams serialises each as application/x-www-form-urlencoded: a *)
(* space becomes "+", a reserved character its percent escape, and the     *)
(* pairs are joined name=value with "&".                                   *)

EncodeChar(c) ==
    CASE c = " " -> "+"
      [] c = "&" -> "%26"
      [] c = "=" -> "%3D"
      [] c = "?" -> "%3F"
      [] c = "/" -> "%2F"
      [] OTHER -> c

RECURSIVE EncodeComponent(_)
EncodeComponent(cs) ==
    IF cs = <<>> THEN "" ELSE EncodeChar(Head(cs)) \o EncodeComponent(Tail(cs))

RECURSIVE SearchParamsToString(_)
SearchParamsToString(pairs) ==
    IF pairs = <<>> THEN ""
    ELSE EncodeComponent(Head(pairs)[1]) \o "=" \o EncodeComponent(Head(pairs)[2])
         \o (IF Tail(pairs) = <<>> THEN "" ELSE "&")
         \o SearchParamsToString(Tail(pairs))

\* params: [given |-> BOOLEAN, pairs |-> the object's entries]
NoParams == [given |-> FALSE, pairs |-> <<>>]
ParamsOf(pairs) == [given |-> TRUE, pairs |-> pairs]

addQueryParams(url, params) ==
    IF ~params.given THEN url
    ELSE url \o "?" \o SearchParamsToString(params.pairs)

---------------------------------------------------------------------------
(* Call slots.  A slot holds one call of get/post/put/patch/delete/        *)
(* uploadFile: what the caller passed, the request handed to fetch, what   *)
(* the transport answered and how the returned promise settled.  A slot    *)
(* whose call has settled is free for the next call.                       *)

IdleCall ==
    [pc |-> "idle",            \* idle | awaitFetch | awaitJson | done
     method |-> "",            \* config.method
     endpoint |-> "",          \* the endpoint argument
     params |-> NoParams,      \* config.params
     arg |-> Undefined,        \* config.body
     fetches |-> 0,            \* number of times fetch was called for this call
     url |-> "",               \* first argument of fetch
     headers |-> NoHeaders,    \* requestConfig.headers
     body |-> Undefined,       \* requestConfig.body
     tokenChanged |-> FALSE,   \* authToken was assigned after this call was built
     status |-> 0,             \* response.status, once fetch fulfilled
     parsed |-> Undefined,     \* what response.json() fulfilled with
     failure |-> Undefined,    \* the first value thrown during the call
     settled |-> "pending",    \* pending | fulfilled | rejected
     settlements |-> 0,        \* number of times the promise was settled
     result |-> Undefined]     \* the value the promise settled with

Free(c) == c.pc \in {"idle", "done"}

\* The promise of call c settles.  The request descriptor and the request
\* built from it are locals of makeRequest: nothing of them is kept.
Settle(c, how, value, failure, parsed) ==
    [IdleCall EXCEPT !.pc = "done",
                     !.fetches = c.fetches,
                     !.status = c.status,
                     !.parsed = parsed,
                     !.failure = failure,
                     !.settled = how,
                     !.settlements = c.settlements + 1,
                     !.result = value]

\* the call handed a request to fetch
InFlight(c) == c.pc \in {"awaitFetch", "awaitJson"}

---------------------------------------------------------------------------
(* Authentication state *)

\* setAuthToken / clearAuthToken assign the field and nothing else: a request
\* already built keeps the header object it was built with.
\* (faulty variant: the pending requests share one live Authorization entry)
AfterTokenAssignmentRewritingHeaders(c, token) ==
    [c EXCEPT !.tokenChanged = TRUE,
              !.headers = IF InFlight(c) /\ Truthy(token)
                          THEN Spread(@, [k \in {"Authorization"} |-> "Bearer " \o token.s])
                          ELSE IF InFlight(c) THEN DeleteHeader(@, "Authorization")
                          ELSE @]

AfterTokenAssignment(c, token) == [c EXCEPT !.tokenChanged = TRUE]

setAuthToken(token) ==
    /\ authToken' = Str(token)
    /\ calls' = [r \in DOMAIN calls |-> AfterTokenAssignment(calls[r], Str(token))]
    /\ UNCHANGED defaultHeaders

clearAuthToken ==
    /\ authToken' = Undefined
    /\ calls' = [r \in DOMAIN calls |-> AfterTokenAssignment(calls[r], Undefined)]
    /\ UNCHANGED defaultHeaders

\* getAuthHeaders
\* (faulty variant: no test of this.authToken)
getAuthHeadersIgnoringClear(token) ==
    IF token.t = "string"
    THEN [k \in {"Authorization"} |-> "Bearer " \o token.s]
    ELSE [k \in {"Authorization"} |-> "Bearer undefined"]

getAuthHeaders(token) ==
    IF Truthy(token)
    THEN [k \in {"Authorization"} |-> "Bearer " \o token.s]
    ELSE NoHeaders

---------------------------------------------------------------------------
(* makeRequest: the synchronous prefix, up to and including the call of    *)
(* fetch.                                                                  *)

RequestConfig(method, headers, body, params) ==
    [method |-> method, headers |-> headers, body |-> body, params |-> params]

\* if (body && method !== 'GET')
AttachesBody(method, body) == Truthy(body) /\ method # "GET"

IsFormData(body) == body.t = "FormData"

\* the header object handed to fetch
\* (faulty variant: Content-Type is not deleted for FormData)
RequestHeadersKeepingContentType(defaults, token, config) ==
    Spread(Spread(defaults, getAuthHeaders(token)), config.headers)

RequestHeaders(defaults, token, config) ==
    LET requestHeaders == Spread(Spread(defaults, getAuthHeaders(token)), config.headers)
    IN  IF AttachesBody(config.method, config.body) /\ IsFormData(config.body)
        THEN DeleteHeader(requestHeaders, "Content-Type")
        ELSE requestHeaders

\* requestHeaders is a fresh object (a spread of defaultHeaders), so deleting
\* its Content-Type leaves defaultHeaders as it was
\* (faulty variant: requestHeaders is defaultHeaders itself, extended in place)
DefaultHeadersAfterBuildAliased(defaults, config) ==
    IF AttachesBody(config.method, config.body) /\ IsFormData(config.body)
    THEN DeleteHeader(defaults, "Content-Type")
    ELSE defaults

DefaultHeadersAfterBuild(defaults, config) == defaults

\* requestConfig.body
RequestBody(config) ==
    IF AttachesBody(config.method, config.body)
    THEN IF IsFormData(config.body) THEN config.body
         ELSE Str(JSONstringify(config.body))
    ELSE Undefined

\* JSON.stringify(body) runs before the try block: what it throws rejects
\* the promise as it is
SerializationThrows(config) ==
    /\ AttachesBody(config.method, config.body)
    /\ ~IsFormData(config.body)
    /\ StringifyThrows(config.body)

makeRequest(r, endpoint, config) ==
    /\ Free(calls[r])
    /\ LET started == [IdleCall EXCEPT !.method = config.method,
                                       !.endpoint = endpoint,
                                       !.params = config.params,
                                       !.arg = config.body]
       IN  calls' = [calls EXCEPT ![r] =
             IF SerializationThrows(config)
             THEN Settle(started, "rejected", StringifyError, StringifyError, Undefined)
             ELSE [started EXCEPT !.pc = "awaitFetch",
                                  !.fetches = 1,
                                  !.url = addQueryParams(API_BASE_URL \o endpoint,
                                                         config.params),
                                  !.headers = RequestHeaders(defaultHeaders, authToken,
                                                             config),
                                  !.body = RequestBody(config)]]
    /\ defaultHeaders' = DefaultHeadersAfterBuild(defaultHeaders, config)
    /\ UNCHANGED authToken

---------------------------------------------------------------------------
(* The request operations *)

get(r, endpoint, params) ==
    makeRequest(r, endpoint, RequestConfig("GET", NoHeaders, Undefined, params))

post(r, endpoint, body) ==
    makeRequest(r, endpoint, RequestConfig("POST", NoHeaders, body, NoParams))

put(r, endpoint, body) ==
    makeRequest(r, endpoint, RequestConfig("PUT", NoHeaders, body, NoParams))

delete(r, endpoint) ==
    makeRequest(r, endpoint, RequestConfig("DELETE", NoHeaders, Undefined, NoParams))

patch(r, endpoint, body) ==
    makeRequest(r, endpoint, RequestConfig("PATCH", NoHeaders, body, NoParams))

\* String(v), as FormData.append applies it to a value that is no Blob
ToJsString(v) ==
    CASE v.t = "string" -> v.s
      [] v.t = "number" -> ToString(v.n)
      [] v.t \in {"boolean", "null", "undefined"} -> IF v.t = "boolean" THEN v.s ELSE v.t
      [] OTHER -> "[object Object]"

RECURSIVE AppendAll(_, _)
AppendAll(entries, fields) ==
    IF fields = <<>> THEN entries
    ELSE AppendAll(Append(entries, <<Head(fields)[1], Str(ToJsString(Head(fields)[2]))>>),
                   Tail(fields))

UploadFormData(file, additionalData) ==
    LET withFile == <<<<"file", file>>>>
    IN  FormDataOf(IF Truthy(additionalData)
                   THEN AppendAll(withFile, additionalData.f)
                   ELSE withFile)

uploadFile(r, endpoint, file, additionalData) ==
    makeRequest(r, endpoint,
                RequestConfig("POST", NoHeaders, UploadFormData(file, additionalData),
                              NoParams))

---------------------------------------------------------------------------
(* makeRequest: the try block and its catch                                *)

\* response.ok
\* (faulty variant: only 200 counts as success)
ResponseOkOnly200(status) == status = 200

ResponseOk(status) == status >= 200 /\ status <= 299

\* error.message.includes('fetch'), over the messages of the model
MessagesWithFetch ==
    {"Failed to fetch", "fetch failed",
     "NetworkError when attempting to fetch resource."}

IncludesFetch(message) == message \in MessagesWithFetch

NetworkErrorMessage == "Network error. Please check your connection."
UnexpectedErrorMessage == "An unexpected error occurred"
RequestFailedMessage == "Request failed"

\* the catch block: the value the promise is rejected with
\* (faulty variant: no `instanceof ApiError` test, so the catch-all wraps the
\* ApiError thrown in the try block)
CatchRewrappingApiError(error) ==
    IF error.t = "TypeError" /\ IncludesFetch(error.s)
    THEN ApiError(NetworkErrorMessage, 0, Undefined)
    ELSE ApiError(UnexpectedErrorMessage, 500, error)

Catch(error) ==
    IF IsApiError(error) THEN error
    ELSE IF error.t = "TypeError" /\ IncludesFetch(error.s)
    THEN ApiError(NetworkErrorMessage, 0, Undefined)
    ELSE ApiError(UnexpectedErrorMessage, 500, error)

\* what the try block throws once response.json() has fulfilled with data
\* and the response is not ok
ThrownOnFailureStatus(status, data) ==
    IF PropertyReadThrows(data)
    THEN PropertyReadError(data, "message")
    ELSE ApiError(IF Truthy(Field(data, "message"))
                  THEN ToJsString(Field(data, "message"))
                  ELSE RequestFailedMessage,
                  status, data)

\* await fetch(url, requestConfig) fulfils with a response
FetchFulfils(r, status) ==
    /\ calls[r].pc = "awaitFetch"
    /\ calls' = [calls EXCEPT ![r].pc = "awaitJson", ![r].status = status]
    /\ UNCHANGED <<authToken, defaultHeaders>>

\* await fetch(url, requestConfig) rejects: the catch block runs
FetchRejects(r, error) ==
    /\ calls[r].pc = "awaitFetch"
    /\ calls' = [calls EXCEPT ![r] = Settle(@, "rejected", Catch(error), error, Undefined)]
    /\ UNCHANGED <<authToken, defaultHeaders>>

\* await response.json() fulfils with the parsed body
JsonFulfils(r, data) ==
    /\ calls[r].pc = "awaitJson"
    /\ calls' = [calls EXCEPT ![r] =
          IF ResponseOk(calls[r].status)
          THEN Settle(@, "fulfilled", data, Undefined, data)
          ELSE Settle(@, "rejected",
                      Catch(ThrownOnFailureStatus(calls[r].status, data)),
                      ThrownOnFailureStatus(calls[r].status, data), data)]
    /\ UNCHANGED <<authToken, defaultHeaders>>

\* await response.json() rejects: the catch block runs
JsonRejects(r, error) ==
    /\ calls[r].pc = "awaitJson"
    /\ calls' = [calls EXCEPT ![r] = Settle(@, "rejected", Catch(error), error, Undefined)]
    /\ UNCHANGED <<authToken, defaultHeaders>>

---------------------------------------------------------------------------
(* Inputs *)

Tokens == {"", "t1", "t2"}
Endpoints == {"/test"}
Files == {FileOf("a.pdf")}

\* { a: "1", b: "x y" }
ParamsAB == ParamsOf(<< <<(<<"a">>), (<<"1">>)>>, <<(<<"b">>), (<<"x", " ", "y">>)>> >>)
ParamChoices == {NoParams, ParamsAB}

\* bodies: none, an object, a falsy value, an object that refers to itself
LoginBody == Obj(<< <<"email", Str("john@example.com")>>, <<"note", Undefined>> >>)
BodyChoices == {Undefined, LoginBody, Num(0), Cyclic}
AdditionalDataChoices == {Undefined, Obj(<< <<"type", Str("passport")>> >>)}

\* response statuses; what response.json() fulfils with; what fetch and
\* response.json() reject with
Statuses == {200, 299, 300, 404}
SuccessEnvelope ==
    Obj(<< <<"success", Bool(TRUE)>>, <<"data", Obj(<< <<"id", Num(1)>> >>)>> >>)
NotFoundEnvelope ==
    Obj(<< <<"success", Bool(FALSE)>>, <<"message", Str("not found")>> >>)
EmptyMessageEnvelope ==
    Obj(<< <<"success", Bool(FALSE)>>, <<"message", Str("")>> >>)
NoMessageEnvelope == Obj(<< <<"success", Bool(FALSE)>> >>)
JsonValues ==
    {SuccessEnvelope, NotFoundEnvelope, EmptyMessageEnvelope, NoMessageEnvelope, Null}
FailedToFetch == ErrorOf("TypeError", "Failed to fetch")
LoadFailed == ErrorOf("TypeError", "Load failed")
FetchErrors == {FailedToFetch, LoadFailed}
UnexpectedEnd == ErrorOf("SyntaxError", "Unexpected end of JSON input")
JsonErrors == {UnexpectedEnd, ErrorOf("TypeError", "network error")}

---------------------------------------------------------------------------
(* Specifications *)

Init ==
    /\ authToken = Undefined
    /\ defaultHeaders = InitialDefaultHeaders
    /\ calls = [r \in 1..MaxCalls |-> IdleCall]

\* Concurrency: several calls pending at once, token updates at any point,
\* one input of each request operation and one way of each for the
\* transport to answer.
Next ==
    \/ \E t \in {"t1", "t2"} : setAuthToken(t)
    \/ clearAuthToken
    \/ \E r \in DOMAIN calls, e \in Endpoints, p \in ParamChoices : get(r, e, p)
    \/ \E r \in DOMAIN calls, e \in Endpoints : post(r, e, LoginBody)
    \/ \E r \in DOMAIN calls, e \in Endpoints : put(r, e, LoginBody)
    \/ \E r \in DOMAIN calls, e \in Endpoints : patch(r, e, LoginBody)
    \/ \E r \in DOMAIN calls, e \in Endpoints : delete(r, e)
    \/ \E r \in DOMAIN calls, e \in Endpoints, f \in Files : uploadFile(r, e, f, Undefined)
    \/ \E r \in DOMAIN calls : FetchFulfils(r, 200)
    \/ \E r \in DOMAIN calls : FetchRejects(r, FailedToFetch)
    \/ \E r \in DOMAIN calls : JsonFulfils(r, SuccessEnvelope)
    \/ \E r \in DOMAIN calls : JsonRejects(r, UnexpectedEnd)

Spec == Init /\ [][Next]_vars

SingleInit ==
    /\ authToken = Undefined
    /\ defaultHeaders = InitialDefaultHeaders
    /\ calls = [r \in 1..MaxSingleCalls |-> IdleCall]

\* Request construction: every request operation with every kind of input
\* and every token, and one way of each for the transport to answer.
RequestNext ==
    \/ \E t \in Tokens : setAuthToken(t)
    \/ clearAuthToken
    \/ \E r \in DOMAIN calls, e \in Endpoints, p \in ParamChoices : get(r, e, p)
    \/ \E r \in DOMAIN calls, e \in Endpoints, b \in BodyChoices : post(r, e, b)
    \/ \E r \in DOMAIN calls, e \in Endpoints, b \in BodyChoices : put(r, e, b)
    \/ \E r \in DOMAIN calls, e \in Endpoints, b \in BodyChoices : patch(r, e, b)
    \/ \E r \in DOMAIN calls, e \in Endpoints : delete(r, e)
    \/ \E r \in DOMAIN calls, e \in Endpoints, f \in Files,
          d \in AdditionalDataChoices : uploadFile(r, e, f, d)
    \/ \E r \in DOMAIN calls : FetchFulfils(r, 200)
    \/ \E r \in DOMAIN calls : FetchRejects(r, FailedToFetch)
    \/ \E r \in DOMAIN calls : JsonFulfils(r, SuccessEnvelope)
    \/ \E r \in DOMAIN calls : JsonRejects(r, UnexpectedEnd)

RequestSpec == SingleInit /\ [][RequestNext]_vars

\* Response handling: every way for the transport to answer, for one input
\* of each request operation (and a body that cannot be serialised).
ResponseNext ==
    \/ setAuthToken("t1")
    \/ clearAuthToken
    \/ \E r \in DOMAIN calls, e \in Endpoints : get(r, e, NoParams)
    \/ \E r \in DOMAIN calls, e \in Endpoints, b \in {LoginBody, Cyclic} : post(r, e, b)
    \/ \E r \in DOMAIN calls, e \in Endpoints : put(r, e, LoginBody)
    \/ \E r \in DOMAIN calls, e \in Endpoints : patch(r, e, LoginBody)
    \/ \E r \in DOMAIN calls, e \in Endpoints : delete(r, e)
    \/ \E r \in DOMAIN calls, e \in Endpoints, f \in Files : uploadFile(r, e, f, Undefined)
    \/ \E r \in DOMAIN calls, s \in Statuses : FetchFulfils(r, s)
    \/ \E r \in DOMAIN calls, x \in FetchErrors : FetchRejects(r, x)
    \/ \E r \in DOMAIN calls, d \in JsonValues : JsonFulfils(r, d)
    \/ \E r \in DOMAIN calls, x \in JsonErrors : JsonRejects(r, x)

ResponseSpec == SingleInit /\ [][ResponseNext]_vars

---------------------------------------------------------------------------
(* Properties *)

Slots == DOMAIN calls

HasHeader(c, name) == name \in DOMAIN c.headers
HeaderIs(c, name, value) == HasHeader(c, name) /\ c.headers[name] = value

\* a pending request built since the last assignment of authToken
Fresh(c) == InFlight(c) /\ ~c.tokenChanged

Done(c) == c.pc = "done"
\* the ways a settled call went
FetchRejected(c) == Done(c) /\ c.fetches > 0 /\ c.status = 0
GotResponse(c) == Done(c) /\ c.status > 0
JsonParsed(c) == GotResponse(c) /\ c.parsed # Undefined
Is2xx(status) == status \in 200..299

\* C1, as stated: a request built while a token t is set carries
\* Authorization = "Bearer t" for the current t; a request built with no
\* token set (never set, or cleared) carries no Authorization header.
C1_AsStated ==
    \A r \in Slots : Fresh(calls[r]) =>
        IF authToken.t = "string"
        THEN HeaderIs(calls[r], "Authorization", "Bearer " \o authToken.s)
        ELSE ~HasHeader(calls[r], "Authorization")

\* C1, amended: a request built while a non-empty token t is set carries
\* Authorization = "Bearer t" for the current t; a request built with no
\* token, a cleared token or the empty string as token carries no
\* Authorization header.
C1_BearerTokenAttached ==
    \A r \in Slots : Fresh(calls[r]) =>
        IF authToken.t = "string" /\ authToken.s # ""
        THEN HeaderIs(calls[r], "Authorization", "Bearer " \o authToken.s)
        ELSE ~HasHeader(calls[r], "Authorization")

C1_Witness ==
    /\ authToken = Str("t2")
    /\ \E r \in Slots : /\ Fresh(calls[r])
                        /\ HeaderIs(calls[r], "Authorization", "Bearer t2")

\* C2: the request handed to fetch is fixed when it is built: no step taken
\* while it is pending (a token update, another call, another call's
\* settling, its own response arriving) changes its headers, url or body.
C2_HeadersFixedAtBuild ==
    [][\A r \in Slots :
          (InFlight(calls[r]) /\ InFlight(calls'[r])) =>
              /\ calls'[r].headers = calls[r].headers
              /\ calls'[r].url = calls[r].url
              /\ calls'[r].body = calls[r].body
              /\ calls'[r].method = calls[r].method]_vars

\* a pending request sent with one token while another is now set, beside a
\* pending request built after the update
C2_Witness ==
    /\ authToken = Str("t2")
    /\ \E r1, r2 \in Slots :
          /\ InFlight(calls[r1]) /\ calls[r1].tokenChanged
          /\ HeaderIs(calls[r1], "Authorization", "Bearer t1")
          /\ Fresh(calls[r2])
          /\ HeaderIs(calls[r2], "Authorization", "Bearer t2")

\* C3, as stated: every call whose response has a non-2xx status is rejected
\* with an ApiError whose status is the HTTP status, whose message is the
\* envelope's message field if present and "Request failed" otherwise, and
\* whose data is the parsed envelope.
C3_AsStated ==
    \A r \in Slots :
        (GotResponse(calls[r]) /\ ~Is2xx(calls[r].status)) =>
            /\ calls[r].settled = "rejected"
            /\ IsApiError(calls[r].result)
            /\ calls[r].result.n = calls[r].status
            /\ calls[r].result.s =
                  (IF HasField(calls[r].parsed, "message")
                   THEN ToJsString(Field(calls[r].parsed, "message"))
                   ELSE "Request failed")
            /\ Field(calls[r].result, "data") = calls[r].parsed

\* C3, amended: every call whose response has a non-2xx status and a body
\* that parses to a JSON value other than null is rejected with an ApiError
\* whose status is the HTTP status, whose message is the envelope's message
\* field if that is present and not empty and "Request failed" otherwise,
\* and whose data is the parsed envelope (not re-wrapped as 500 or 0).
C3_HttpFailureClassified ==
    \A r \in Slots :
        (JsonParsed(calls[r]) /\ ~Is2xx(calls[r].status) /\ calls[r].parsed # Null) =>
            /\ calls[r].settled = "rejected"
            /\ IsApiError(calls[r].result)
            /\ calls[r].result.n = calls[r].status
            /\ calls[r].result.s =
                  (IF /\ HasField(calls[r].parsed, "message")
                      /\ Truthy(Field(calls[r].parsed, "message"))
                   THEN ToJsString(Field(calls[r].parsed, "message"))
                   ELSE "Request failed")
            /\ Field(calls[r].result, "data") = calls[r].parsed

C3_Witness ==
    \E r \in Slots :
        /\ JsonParsed(calls[r]) /\ calls[r].status = 404
        /\ calls[r].parsed = NotFoundEnvelope
        /\ calls[r].result = ApiError("not found", 404, NotFoundEnvelope)

\* C4: a call whose fetch rejects (no response obtained) is rejected with
\* ApiError(status 0, "Network error. Please check your connection."), and
\* no call that obtained a response is rejected with a status-0 ApiError.
C4_NetworkFailureClassified ==
    \A r \in Slots :
        /\ FetchRejected(calls[r]) =>
              /\ calls[r].settled = "rejected"
              /\ IsApiError(calls[r].result)
              /\ calls[r].result.n = 0
              /\ calls[r].result.s = "Network error. Please check your connection."
        /\ GotResponse(calls[r]) =>
              ~(calls[r].settled = "rejected" /\ IsApiError(calls[r].result)
                /\ calls[r].result.n = 0)

\* C5: a call that fails with anything other than a parsed non-2xx envelope
\* or a transport failure (in particular a body that is not valid JSON, on
\* any status) is rejected with ApiError(status 500, "An unexpected error
\* occurred") carrying the original failure as data.
C5_UnexpectedFailureClassified ==
    \A r \in Slots :
        (/\ Done(calls[r]) /\ calls[r].settled = "rejected"
         /\ ~IsApiError(calls[r].failure)
         /\ ~FetchRejected(calls[r])) =>
            /\ IsApiError(calls[r].result)
            /\ calls[r].result.n = 500
            /\ calls[r].result.s = "An unexpected error occurred"
            /\ Field(calls[r].result, "data") = calls[r].failure

\* C6: a call whose response has a status in 200..299 and a body that
\* parses as JSON is fulfilled with exactly the parsed envelope.
C6_SuccessEnvelopeUnchanged ==
    \A r \in Slots :
        (JsonParsed(calls[r]) /\ Is2xx(calls[r].status)) =>
            /\ calls[r].settled = "fulfilled"
            /\ calls[r].result = calls[r].parsed

C6_Witness ==
    \E r \in Slots :
        /\ JsonParsed(calls[r]) /\ calls[r].status = 299
        /\ calls[r].settled = "fulfilled"
        /\ calls[r].result = SuccessEnvelope
        /\ Field(Field(calls[r].result, "data"), "id") = Num(1)

\* C7: a call that is not fulfilled is rejected with an ApiError of one of
\* the three kinds (the HTTP status, 0, or 500): nothing that fails during
\* the call, serialising the body included, reaches the caller as a raw
\* exception.
C7_EveryFailureClassified ==
    \A r \in Slots :
        (Done(calls[r]) /\ calls[r].settled # "fulfilled") =>
            /\ calls[r].settled = "rejected"
            /\ IsApiError(calls[r].result)
            /\ \/ calls[r].result.n = 0
               \/ calls[r].result.n = 500
               \/ GotResponse(calls[r]) /\ calls[r].result.n = calls[r].status

\* C8: a call that has settled called fetch exactly once and settled its
\* promise exactly once.
C8_OneRequestOneOutcome ==
    \A r \in Slots :
        Done(calls[r]) => (calls[r].fetches = 1 /\ calls[r].settlements = 1)

\* C9: a GET request carries no body; a non-GET request given an object as
\* body carries its JSON serialisation with Content-Type application/json;
\* an upload (a FormData body) is a POST carrying the form data with no
\* Content-Type header.
C9_BodyAndContentType ==
    \A r \in Slots : InFlight(calls[r]) =>
        /\ calls[r].method = "GET" => calls[r].body = Undefined
        /\ (calls[r].method # "GET" /\ calls[r].arg.t = "object") =>
              /\ calls[r].body = Str(JSONstringify(calls[r].arg))
              /\ HeaderIs(calls[r], "Content-Type", "application/json")
        /\ calls[r].arg.t = "FormData" =>
              /\ calls[r].method = "POST"
              /\ calls[r].body = calls[r].arg
              /\ ~HasHeader(calls[r], "Content-Type")

C9_Witness ==
    \E r \in Slots :
        /\ InFlight(calls[r]) /\ calls[r].method = "POST"
        /\ calls[r].arg =
              FormDataOf(<< <<"file", FileOf("a.pdf")>>, <<"type", Str("passport")>> >>)
        /\ calls[r].body = calls[r].arg
        /\ DOMAIN calls[r].headers = {"X-Requested-With", "Authorization"}

\* C10: two pending GET requests with the same endpoint and parameters,
\* built with no token assignment between them, are identical (url, headers,
\* body), whatever was issued or settled between them; and no request
\* operation changes the default headers.
C10_NoHiddenPerCallState ==
    /\ defaultHeaders = InitialDefaultHeaders
    /\ \A r1, r2 \in Slots :
          (/\ Fresh(calls[r1]) /\ Fresh(calls[r2])
           /\ calls[r1].method = "GET" /\ calls[r2].method = "GET"
           /\ calls[r1].endpoint = calls[r2].endpoint
           /\ calls[r1].params = calls[r2].params) =>
              /\ calls[r1].url = calls[r2].url
              /\ calls[r1].headers = calls[r2].headers
              /\ calls[r1].body = calls[r2].body

C10_Witness ==
    /\ authToken = Str("t1")
    /\ \E r1, r2 \in Slots :
          /\ r1 # r2
          /\ Fresh(calls[r1]) /\ Fresh(calls[r2])
          /\ calls[r1].method = "GET" /\ calls[r2].method = "GET"
          /\ calls[r1].params = ParamsAB /\ calls[r2].params = ParamsAB
          /\ calls[r1].url = "http://localhost:8080/api/test?a=1&b=x+y"
          /\ calls[r2].url = calls[r1].url
          /\ calls[r1].pc = "awaitJson" /\ calls[r2].pc = "awaitFetch"

=============================================================================
